---- MODULE Spec2Model ----
(***************************************************************************)
(* Model of the ravi VSCode debug adapter (vscode-debugger/ravidebug.c).   *)
(*                                                                         *)
(* The adapter is one thread.  main() calls debugger(), whose loop reads   *)
(* framed requests and dispatches them.  A successful launch calls         *)
(* lua_pcall from inside the launch handler; the interpreter then calls    *)
(* ravi_debughook on every line, call and return event, and the hook       *)
(* calls debugger() again, which runs a second read/dispatch loop nested   *)
(* inside the first one.  The model keeps the C call stack explicitly.     *)
(***************************************************************************)
EXTENDS Integers, Sequences, FiniteSets, TLC

(* ---- bounds of the model ---------------------------------------------- *)
\* input frames (requests and malformed frames) the client sends in a session
MaxInput == 3
\* line/call/return events the interpreter raises in a program run
MaxEvents == 3
\* deepest Lua call stack of a program
MaxDepth == 2

(* ---- program constants ------------------------------------------------ *)
DEBUGGER_BIRTH == 1
DEBUGGER_INITIALIZED == 2
DEBUGGER_PROGRAM_LAUNCHED == 3
DEBUGGER_PROGRAM_RUNNING == 4
DEBUGGER_PROGRAM_STOPPED == 5
DEBUGGER_PROGRAM_TERMINATED == 6

\* sizeof buf in debugger()
BUFSIZE == 4096
\* limits of protocol.h
MAX_STACK_FRAMES == 20
MAX_VARIABLES == 4

LocalsBase == 1000000
UpvaluesBase == 2000000
GlobalsBase == 3000000

States == DEBUGGER_BIRTH..DEBUGGER_PROGRAM_TERMINATED

(* ---- requests --------------------------------------------------------- *)
StepCommands == {"stepIn", "stepOut", "next"}

KnownCommands ==
  {"initialize", "launch", "stackTrace", "scopes", "variables", "disconnect",
   "setExceptionBreakpoints", "configurationDone", "threads"} \cup StepCommands

\* "evaluate" stands for every command the adapter has no case for
Commands == KnownCommands \cup {"evaluate"}

Levels == {1}
FrameIds == {0}
VarRefs == {LocalsBase, UpvaluesBase}

\* a request body as the client writes it; seq is filled in when it is read
Request(c, lv, fid, vr) ==
  [command |-> c, levels |-> lv, frameId |-> fid, variablesReference |-> vr]

Requests ==
  {Request(c, 0, 0, 0) : c \in Commands \ {"stackTrace", "scopes", "variables"}}
  \cup {Request("stackTrace", lv, 0, 0) : lv \in Levels}
  \cup {Request("scopes", 0, fid, 0) : fid \in FrameIds}
  \cup {Request("variables", 0, 0, vr) : vr \in VarRefs}

\* the command code vscode_parse_message returns for a request body
vscode_parse_message(body) ==
  IF body.command \in KnownCommands THEN body.command ELSE "unknown"

(* ---- messages written to stdout --------------------------------------- *)
NoBody == [empty |-> TRUE]

Event(ev, text) ==
  [type |-> "event", name |-> ev, success |-> TRUE, request_seq |-> 0,
   message |-> text, body |-> NoBody]

MakeResponse(req, cmd, ok, text, body) ==
  [type |-> "response", name |-> cmd, success |-> ok, request_seq |-> req.seq,
   message |-> text, body |-> body]

send_stopped_event(reason) == Event("stopped", reason)
send_thread_event(started) == Event("thread", IF started THEN "started" ELSE "exited")
send_terminated_event == Event("terminated", "")
send_output_event(msg) == Event("output", msg)
send_error_response(req, cmd, msg) == MakeResponse(req, cmd, FALSE, msg, NoBody)
send_success_response(req, cmd) == MakeResponse(req, cmd, TRUE, "", NoBody)

(* ---- the interpreter's call stack ------------------------------------- *)
\* A paused frame as the handlers see it: its upvalue count and the number
\* of local names lua_getlocal reports.  The stack is a sequence whose last
\* element is level 0.
Frames == {[nups |-> 0, nlocals |-> 0], [nups |-> 1, nlocals |-> 2]}

\* lua_getstack(L, level, &ar): 1 iff the level exists
lua_getstack(stack, level) == level >= 0 /\ level < Len(stack)

FrameAt(stack, level) == stack[Len(stack) - level]

\* lua_getlocal(L, &ar, n): the n-th local name (modelled by n), 0 when absent
lua_getlocal(frame, n) == IF n >= 1 /\ n <= frame.nlocals THEN n ELSE 0

(* ---- handlers --------------------------------------------------------- *)
\* A handler yields the messages it writes, in order, and the new session state.

\* variant: the guard against re-initialisation is off by one state
handle_initialize_request_gt(req, st) ==
  IF st > DEBUGGER_INITIALIZED
  THEN [msgs |-> <<send_error_response(req, "initialize", "already initialized")>>,
        state |-> st]
  ELSE [msgs |-> <<Event("initialized", ""),
                   MakeResponse(req, "initialize", TRUE, "",
                                [supportsConfigurationDoneRequest |-> 1]),
                   send_output_event("Debugger initialized")>>,
        state |-> DEBUGGER_INITIALIZED]

handle_initialize_request(req, st) ==
  IF st >= DEBUGGER_INITIALIZED
  THEN [msgs |-> <<send_error_response(req, "initialize", "already initialized")>>,
        state |-> st]
  ELSE [msgs |-> <<Event("initialized", ""),
                   MakeResponse(req, "initialize", TRUE, "",
                                [supportsConfigurationDoneRequest |-> 1]),
                   send_output_event("Debugger initialized")>>,
        state |-> DEBUGGER_INITIALIZED]

handle_thread_request(req, st) ==
  [msgs |-> <<MakeResponse(req, "threads", TRUE, "",
                           [threads |-> <<[id |-> 1, name |-> "Lua Thread"]>>])>>,
   state |-> st]

\* variant: the walk is not limited to MAX_STACK_FRAMES
RECURSIVE StackWalk_nocap(_, _, _)
StackWalk_nocap(stack, levels, depth) ==
  IF lua_getstack(stack, depth) /\ depth < levels
  THEN StackWalk_nocap(stack, levels, depth + 1)
  ELSE depth

\* the while loop of handle_stack_trace_request: the depth it stops at
RECURSIVE StackWalk(_, _, _)
StackWalk(stack, levels, depth) ==
  IF lua_getstack(stack, depth) /\ depth < levels /\ depth < MAX_STACK_FRAMES
  THEN StackWalk(stack, levels, depth + 1)
  ELSE depth

handle_stack_trace_request(req, st, stack) ==
  LET depth == StackWalk(stack, req.levels, 0)
  IN [msgs |-> <<MakeResponse(req, "stackTrace", TRUE, "",
                   [stackFrames |-> [i \in 1..depth |-> [id |-> i - 1]],
                    totalFrames |-> depth])>>,
      state |-> st]

\* the variablesReference that handle_scopes_request gives the scope of a kind
\* ("l" Locals, "u" Up Values, "g" Globals) of the frame at depth
scope_handle(kind, depth) ==
  CASE kind = "l" -> LocalsBase + depth
    [] kind = "u" -> UpvaluesBase + depth
    [] kind = "g" -> GlobalsBase + depth

\* variant: Up Values are listed for every frame
handle_scopes_request_ge(req, st, stack) ==
  LET depth == req.frameId
      Scope(nm, ref, exp) == [name |-> nm, variablesReference |-> ref, expensive |-> exp]
  IN IF lua_getstack(stack, depth)
     THEN [msgs |-> <<MakeResponse(req, "scopes", TRUE, "",
                        [scopes |->
                           <<Scope("Locals", scope_handle("l", depth), 0)>>
                           \o (IF FrameAt(stack, depth).nups >= 0
                               THEN <<Scope("Up Values", scope_handle("u", depth), 0)>>
                               ELSE <<>>)
                           \o <<Scope("Globals", scope_handle("g", depth), 1)>>])>>,
           state |-> st]
     ELSE [msgs |-> <<send_error_response(req, "scopes", "Error retrieving stack frame")>>,
           state |-> st]

handle_scopes_request(req, st, stack) ==
  LET depth == req.frameId
      Scope(nm, ref, exp) == [name |-> nm, variablesReference |-> ref, expensive |-> exp]
  IN IF lua_getstack(stack, depth)
     THEN [msgs |-> <<MakeResponse(req, "scopes", TRUE, "",
                        [scopes |->
                           <<Scope("Locals", scope_handle("l", depth), 0)>>
                           \o (IF FrameAt(stack, depth).nups > 0
                               THEN <<Scope("Up Values", scope_handle("u", depth), 0)>>
                               ELSE <<>>)
                           \o <<Scope("Globals", scope_handle("g", depth), 1)>>])>>,
           state |-> st]
     ELSE [msgs |-> <<send_error_response(req, "scopes", "Error retrieving stack frame")>>,
           state |-> st]

\* the for loop of handle_variables_request over n; vars is the response's
\* variables array (slot -> name), x the slot the loop writes to
RECURSIVE VariablesLoop(_, _, _, _)
VariablesLoop(frame, n, x, vars) ==
  IF n < MAX_VARIABLES /\ lua_getlocal(frame, n) # 0
  THEN VariablesLoop(frame, n + 1, x, [vars EXCEPT ![x] = lua_getlocal(frame, n)])
  ELSE vars

\* variant: the test for a Globals handle is strict
decode_handle_gt(varRef) ==
  IF varRef > GlobalsBase
  THEN [type |-> "g", depth |-> varRef - GlobalsBase]
  ELSE IF varRef >= UpvaluesBase
  THEN [type |-> "u", depth |-> varRef - UpvaluesBase]
  ELSE [type |-> "l", depth |-> varRef - LocalsBase]

\* the type and depth that handle_variables_request reads off varRef
decode_handle(varRef) ==
  IF varRef >= GlobalsBase
  THEN [type |-> "g", depth |-> varRef - GlobalsBase]
  ELSE IF varRef >= UpvaluesBase
  THEN [type |-> "u", depth |-> varRef - UpvaluesBase]
  ELSE [type |-> "l", depth |-> varRef - LocalsBase]

handle_variables_request(req, st, stack) ==
  LET varRef == req.variablesReference
      type == decode_handle(varRef).type
      depth == decode_handle(varRef).depth
  IN IF type = "l" /\ lua_getstack(stack, depth)
     THEN [msgs |-> <<MakeResponse(req, "variables", TRUE, "",
                        [variables |->
                           VariablesLoop(FrameAt(stack, depth), 1, 0,
                                         [i \in 0..(MAX_VARIABLES - 1) |-> 0])])>>,
           state |-> st]
     ELSE [msgs |-> <<send_error_response(req, "variables", "Error retrieving variables")>>,
           state |-> st]

\* variant: a failed load is reported by the output event only
handle_launch_request_noresp(req, st, status) ==
  IF st # DEBUGGER_INITIALIZED
  THEN [msgs |-> <<send_error_response(req, "launch",
                                       "not initialized or unexpected state")>>,
        state |-> st, run |-> FALSE]
  ELSE IF status # "LUA_OK"
  THEN [msgs |-> <<send_output_event("Failed to launch")>>,
        state |-> st, run |-> FALSE]
  ELSE [msgs |-> <<send_success_response(req, "launch")>>,
        state |-> DEBUGGER_PROGRAM_RUNNING, run |-> TRUE]

\* variant: a failed load ends the session
handle_launch_request_failterm(req, st, status) ==
  IF st # DEBUGGER_INITIALIZED
  THEN [msgs |-> <<send_error_response(req, "launch",
                                       "not initialized or unexpected state")>>,
        state |-> st, run |-> FALSE]
  ELSE IF status # "LUA_OK"
  THEN [msgs |-> <<send_output_event("Failed to launch"),
                   send_error_response(req, "launch", "Launch failed")>>,
        state |-> DEBUGGER_PROGRAM_TERMINATED, run |-> FALSE]
  ELSE [msgs |-> <<send_success_response(req, "launch")>>,
        state |-> DEBUGGER_PROGRAM_RUNNING, run |-> TRUE]

\* variant: the state guard rejects a launch before initialize only
handle_launch_request_lt(req, st, status) ==
  IF st < DEBUGGER_INITIALIZED
  THEN [msgs |-> <<send_error_response(req, "launch",
                                       "not initialized or unexpected state")>>,
        state |-> st, run |-> FALSE]
  ELSE IF status # "LUA_OK"
  THEN [msgs |-> <<send_output_event("Failed to launch"),
                   send_error_response(req, "launch", "Launch failed")>>,
        state |-> st, run |-> FALSE]
  ELSE [msgs |-> <<send_success_response(req, "launch")>>,
        state |-> DEBUGGER_PROGRAM_RUNNING, run |-> TRUE]

\* handle_launch_request up to the call of lua_pcall; run tells whether the
\* handler goes on to run the program
handle_launch_request(req, st, status) ==
  IF st # DEBUGGER_INITIALIZED
  THEN [msgs |-> <<send_error_response(req, "launch",
                                       "not initialized or unexpected state")>>,
        state |-> st, run |-> FALSE]
  ELSE IF status # "LUA_OK"
  THEN [msgs |-> <<send_output_event("Failed to launch"),
                   send_error_response(req, "launch", "Launch failed")>>,
        state |-> st, run |-> FALSE]
  ELSE [msgs |-> <<send_success_response(req, "launch")>>,
        state |-> DEBUGGER_PROGRAM_RUNNING, run |-> TRUE]

\* variant: the launch is answered once more when the handler finishes
handle_launch_request_end_late(req, failed) ==
  [msgs |-> (IF failed
             THEN <<send_output_event("Program terminated with error"),
                    send_output_event("lua error")>>
             ELSE <<>>)
            \o <<send_terminated_event, send_success_response(req, "launch")>>,
   state |-> DEBUGGER_PROGRAM_TERMINATED]

\* variant: a runtime error returns before the terminated event
handle_launch_request_end_noterm(req, failed) ==
  IF failed
  THEN [msgs |-> <<send_output_event("Program terminated with error"),
                   send_output_event("lua error")>>,
        state |-> DEBUGGER_PROGRAM_TERMINATED]
  ELSE [msgs |-> <<send_terminated_event>>, state |-> DEBUGGER_PROGRAM_TERMINATED]

\* handle_launch_request after lua_pcall has returned; failed is pcall's result
handle_launch_request_end(req, failed) ==
  [msgs |-> (IF failed
             THEN <<send_output_event("Program terminated with error"),
                    send_output_event("lua error")>>
             ELSE <<>>)
            \o <<send_terminated_event>>,
   state |-> DEBUGGER_PROGRAM_TERMINATED]

(* ---- debugger() ------------------------------------------------------- *)
\* variant: the disconnect case leaves the switch instead of the process
disconnect_request_noexit(req, st) ==
  [msgs |-> <<send_success_response(req, "disconnect")>>, state |-> st,
   get_command |-> TRUE, exit |-> FALSE, run |-> FALSE]

\* variant: a step request is acknowledged but the loop goes on reading
step_request_stay(req, command, st) ==
  [msgs |-> <<send_success_response(req, command)>>, state |-> st,
   get_command |-> TRUE, exit |-> FALSE, run |-> FALSE]

\* the stepIn, stepOut and next cases of the switch: the response, then
\* get_command = false
step_request(req, command, st) ==
  [msgs |-> <<send_success_response(req, command)>>, state |-> st,
   get_command |-> FALSE, exit |-> FALSE, run |-> FALSE]

\* the disconnect case of the switch: the response, then exit(0)
disconnect_request(req, st) ==
  [msgs |-> <<send_success_response(req, "disconnect")>>, state |-> st,
   get_command |-> TRUE, exit |-> TRUE, run |-> FALSE]

\* The switch of debugger() on the parsed command.  get_command is the loop
\* flag after the case, exit tells that the case called exit(0), run that the
\* launch handler went on to lua_pcall.
debugger_dispatch(command, req, st, stack, status) ==
  LET Plain(h) == [msgs |-> h.msgs, state |-> h.state, get_command |-> TRUE,
                   exit |-> FALSE, run |-> FALSE]
      Ack(resume) == [msgs |-> <<send_success_response(req, command)>>, state |-> st,
                      get_command |-> ~resume, exit |-> FALSE, run |-> FALSE]
  IN CASE command = "initialize" -> Plain(handle_initialize_request(req, st))
       [] command = "launch" ->
            LET h == handle_launch_request(req, st, status)
            IN [msgs |-> h.msgs, state |-> h.state, get_command |-> TRUE,
                exit |-> FALSE, run |-> h.run]
       [] command = "stackTrace" -> Plain(handle_stack_trace_request(req, st, stack))
       [] command = "scopes" -> Plain(handle_scopes_request(req, st, stack))
       [] command = "variables" -> Plain(handle_variables_request(req, st, stack))
       [] command = "disconnect" -> disconnect_request(req, st)
       [] command = "setExceptionBreakpoints" -> Ack(FALSE)
       [] command = "configurationDone" -> Ack(FALSE)
       [] command = "threads" -> Plain(handle_thread_request(req, st))
       [] command = "stepIn" -> step_request(req, command, st)
       [] command = "stepOut" -> step_request(req, command, st)
       [] command = "next" -> step_request(req, command, st)
       [] OTHER ->
            [msgs |-> <<send_error_response(req, command, "not yet implemented")>>,
             state |-> st, get_command |-> TRUE, exit |-> FALSE, run |-> FALSE]

\* variant: the first-stop flag is never set
debugger_entry_nosent(st, sent) ==
  IF st = DEBUGGER_PROGRAM_TERMINATED
  THEN [ret |-> TRUE, msgs |-> <<>>, state |-> st, thread_event_sent |-> sent]
  ELSE IF st = DEBUGGER_PROGRAM_RUNNING
  THEN [ret |-> FALSE,
        msgs |-> IF sent = 0
                 THEN <<send_thread_event(TRUE), send_stopped_event("entry")>>
                 ELSE <<send_stopped_event("step")>>,
        state |-> DEBUGGER_PROGRAM_STOPPED,
        thread_event_sent |-> sent]
  ELSE [ret |-> FALSE, msgs |-> <<>>, state |-> st, thread_event_sent |-> sent]

\* variant: the hook does not leave ProgramRunning before it reads
debugger_entry_nostop(st, sent) ==
  IF st = DEBUGGER_PROGRAM_TERMINATED
  THEN [ret |-> TRUE, msgs |-> <<>>, state |-> st, thread_event_sent |-> sent]
  ELSE IF st = DEBUGGER_PROGRAM_RUNNING
  THEN [ret |-> FALSE,
        msgs |-> IF sent = 0
                 THEN <<send_thread_event(TRUE), send_stopped_event("entry")>>
                 ELSE <<send_stopped_event("step")>>,
        state |-> st,
        thread_event_sent |-> 1]
  ELSE [ret |-> FALSE, msgs |-> <<>>, state |-> st, thread_event_sent |-> sent]

\* The head of debugger(), before its loop: ret tells that it returned at once.
debugger_entry(st, sent) ==
  IF st = DEBUGGER_PROGRAM_TERMINATED
  THEN [ret |-> TRUE, msgs |-> <<>>, state |-> st, thread_event_sent |-> sent]
  ELSE IF st = DEBUGGER_PROGRAM_RUNNING
  THEN [ret |-> FALSE,
        msgs |-> IF sent = 0
                 THEN <<send_thread_event(TRUE), send_stopped_event("entry")>>
                 ELSE <<send_stopped_event("step")>>,
        state |-> DEBUGGER_PROGRAM_STOPPED,
        thread_event_sent |-> 1]
  ELSE [ret |-> FALSE, msgs |-> <<>>, state |-> st, thread_event_sent |-> sent]

\* The assignment after the loop of debugger(): the state it returns with.
debugger_exit(st) == DEBUGGER_PROGRAM_RUNNING

(* ---- state ------------------------------------------------------------ *)
VARIABLES
  debugger_state,     \* the static debugger_state
  thread_event_sent,  \* the static thread_event_sent
  callstack,          \* C activations: "main" (debugger called by main),
                      \* "pcall" (lua_pcall in the launch handler), "hook"
                      \* (debugger called by ravi_debughook); last is innermost
  ci,                 \* the interpreter's call stack, last element is level 0
  out,                \* the messages written to stdout, in order
  eof,                \* stdin has reached end-of-stream
  exited,             \* the process has ended
  exit_code,          \* its exit code, once exited
  nread,              \* input frames consumed
  nevents,            \* hook events raised in the program run
  launch_req,         \* the req of the launch handler that called lua_pcall
  inlog,              \* history: what each read of the input found, in order
  reqlog,             \* history: the requests dispatched, in order
  nhooks,             \* history: the line-hook invocations so far
  run_result          \* history: "none", or how lua_pcall returned

vars == <<debugger_state, thread_event_sent, callstack, ci, out, eof, exited,
          exit_code, nread, nevents, launch_req, inlog, reqlog, nhooks, run_result>>

Top == callstack[Len(callstack)]
Pop(s) == SubSeq(s, 1, Len(s) - 1)

\* the adapter is blocked in the fgets at the head of a debugger() loop
InLoop == ~exited /\ callstack # <<>> /\ Top \in {"main", "hook"}
\* the interpreter is executing the program
InProgram == ~exited /\ callstack # <<>> /\ Top = "pcall"

Init ==
  /\ debugger_state = DEBUGGER_BIRTH
  /\ thread_event_sent = 0
  /\ callstack = <<"main">>
  /\ ci = <<>>
  /\ out = <<>>
  /\ eof = FALSE
  /\ exited = FALSE
  /\ exit_code = 0
  /\ nread = 0
  /\ nevents = 0
  /\ launch_req = [seq |-> 0] @@ Request("", 0, 0, 0)
  /\ inlog = <<>>
  /\ reqlog = <<>>
  /\ nhooks = 0
  /\ run_result = "none"

\* the Content-Length values a client may declare
FrameLens == {0 - 1, BUFSIZE - 1, BUFSIZE}

\* the test len >= sizeof buf: len is an int and sizeof buf a size_t, so len
\* is converted to unsigned and a negative len compares as a huge one
len_ge_sizeof_buf(len) == len < 0 \/ len >= BUFSIZE

\* the entry of inlog for a read that found kind, with declared length len
Read(kind, len) ==
  [kind |-> kind, len |-> len, state |-> debugger_state, ctx |-> Top,
   run |-> run_result, nreq |-> Len(reqlog)]

\* debugger() returns to its caller with state st: main goes on to return 0,
\* the hook goes back into the interpreter.
LoopReturns(st) ==
  /\ debugger_state' = st
  /\ callstack' = Pop(callstack)
  /\ IF Top = "main"
     THEN exited' = TRUE /\ exit_code' = 0
     ELSE UNCHANGED <<exited, exit_code>>

\* One pass of the loop body for a well-framed request: a frame of len bytes
\* holding body is read, parsed and dispatched; status is what luaL_loadfile
\* would return and chunk the main function it would load.
Dispatch(body, len, status, chunk) ==
  /\ InLoop /\ ~eof
  /\ ~len_ge_sizeof_buf(len)
  /\ inlog' = Append(inlog, Read("request", len))
  /\ UNCHANGED <<thread_event_sent, eof, nhooks, run_result>>
  /\ LET req == [seq |-> Len(reqlog) + 1] @@ body
         command == vscode_parse_message(body)
         r == debugger_dispatch(command, req, debugger_state, ci, status)
     IN      /\ out' = out \o r.msgs
             /\ nread' = nread + 1
             /\ IF r.exit
                THEN /\ exited' = TRUE /\ exit_code' = 0
                     /\ debugger_state' = r.state
                     /\ UNCHANGED <<callstack, ci, nevents, launch_req>>
                ELSE IF r.run
                THEN /\ debugger_state' = r.state
                     /\ callstack' = Append(callstack, "pcall")
                     /\ ci' = <<chunk>>
                     /\ nevents' = 0
                     /\ launch_req' = req
                     /\ UNCHANGED <<exited, exit_code>>
                ELSE IF ~r.get_command
                THEN /\ LoopReturns(debugger_exit(r.state))
                     /\ UNCHANGED <<ci, nevents, launch_req>>
                ELSE /\ debugger_state' = r.state
                     /\ UNCHANGED <<callstack, ci, nevents, launch_req, exited,
                                    exit_code>>
             /\ reqlog' = Append(reqlog,
                  [seq |-> req.seq, command |-> body.command, state |-> debugger_state,
                   handled |-> r.state, after |-> debugger_state', ctx |-> Top,
                   stack_after |-> callstack', outlen |-> Len(out),
                   outlen_after |-> Len(out'), hook |-> nhooks, status |-> status,
                   body |-> body, stack |-> ci, callstack |-> callstack,
                   inpos |-> Len(inlog')])

\* A well-framed request is read and dispatched.
ReadRequest ==
  /\ nread < MaxInput
  /\ \E body \in Requests, len \in FrameLens,
        status \in {"LUA_OK", "LUA_ERRFILE"}, chunk \in Frames :
       /\ (body.command # "launch" \/ debugger_state # DEBUGGER_INITIALIZED)
             => status = "LUA_OK"
       /\ (body.command # "launch" \/ debugger_state # DEBUGGER_INITIALIZED
             \/ status # "LUA_OK") => chunk = [nups |-> 0, nlocals |-> 0]
       /\ Dispatch(body, len, status, chunk)

\* A line without "Content-Length: " is logged and skipped.
ReadUnexpected ==
  /\ InLoop /\ ~eof /\ nread < MaxInput
  /\ nread' = nread + 1
  /\ inlog' = Append(inlog, Read("unexpected", 0))
  /\ UNCHANGED <<debugger_state, thread_event_sent, callstack, ci, out, eof, exited,
                 exit_code, nevents, launch_req, reqlog, nhooks, run_result>>

\* The declared Content-Length does not fit the buffer: exit(1).
ReadTooLong ==
  /\ InLoop /\ ~eof /\ nread < MaxInput
  /\ \E len \in FrameLens :
       /\ len_ge_sizeof_buf(len)
       /\ inlog' = Append(inlog, Read("too long", len))
  /\ nread' = nread + 1
  /\ exited' = TRUE /\ exit_code' = 1
  /\ UNCHANGED <<debugger_state, thread_event_sent, callstack, ci, out, eof,
                 nevents, launch_req, reqlog, nhooks, run_result>>

\* The body is cut short by end-of-stream: fread fails, exit(1).
ReadShortBody ==
  /\ InLoop /\ ~eof /\ nread < MaxInput
  /\ \E len \in FrameLens :
       /\ ~len_ge_sizeof_buf(len)
       /\ inlog' = Append(inlog, Read("short body", len))
  /\ nread' = nread + 1
  /\ eof' = TRUE
  /\ exited' = TRUE /\ exit_code' = 1
  /\ UNCHANGED <<debugger_state, thread_event_sent, callstack, ci, out,
                 nevents, launch_req, reqlog, nhooks, run_result>>

\* The stream ends after the Content-Length line: the fgets for the blank
\* line returns NULL, the loop is left by break and debugger() returns.
ReadEOFAfterHeader ==
  /\ InLoop /\ ~eof /\ nread < MaxInput
  /\ \E len \in FrameLens :
       /\ ~len_ge_sizeof_buf(len)
       /\ inlog' = Append(inlog, Read("eof after header", len))
  /\ nread' = nread + 1
  /\ eof' = TRUE
  /\ LoopReturns(debugger_exit(debugger_state))
  /\ UNCHANGED <<thread_event_sent, ci, out, nevents, launch_req, reqlog,
                 nhooks, run_result>>

\* fgets returns NULL at the head of the loop: the loop ends and debugger()
\* returns.
ReadEOF ==
  /\ InLoop
  /\ eof' = TRUE
  /\ inlog' = Append(inlog, Read("eof", 0))
  /\ LoopReturns(debugger_exit(debugger_state))
  /\ UNCHANGED <<thread_event_sent, ci, out, nread, nevents, launch_req, reqlog,
                 nhooks, run_result>>

\* The interpreter raises a line event: ravi_debughook calls debugger().
HookLine ==
  /\ InProgram /\ nevents < MaxEvents
  /\ LET e == debugger_entry(debugger_state, thread_event_sent)
     IN /\ out' = out \o e.msgs
        /\ debugger_state' = e.state
        /\ thread_event_sent' = e.thread_event_sent
        /\ callstack' = IF e.ret THEN callstack ELSE Append(callstack, "hook")
  /\ nevents' = nevents + 1
  /\ nhooks' = nhooks + 1
  /\ UNCHANGED <<ci, eof, exited, exit_code, nread, launch_req, inlog, reqlog,
                 run_result>>

\* A call event: ravi_debughook ignores it; the callee's frame is level 0.
HookCall ==
  /\ InProgram /\ nevents < MaxEvents /\ Len(ci) < MaxDepth
  /\ \E f \in Frames : ci' = Append(ci, f)
  /\ nevents' = nevents + 1
  /\ UNCHANGED <<debugger_state, thread_event_sent, callstack, out, eof, exited,
                 exit_code, nread, launch_req, inlog, reqlog, nhooks, run_result>>

\* A return event: ravi_debughook ignores it; the frame is popped.
HookReturn ==
  /\ InProgram /\ nevents < MaxEvents /\ Len(ci) > 1
  /\ ci' = Pop(ci)
  /\ nevents' = nevents + 1
  /\ UNCHANGED <<debugger_state, thread_event_sent, callstack, out, eof, exited,
                 exit_code, nread, launch_req, inlog, reqlog, nhooks, run_result>>

\* lua_pcall returns to handle_launch_request, which finishes and returns to
\* the loop that dispatched the launch.
ProgramEnds ==
  /\ InProgram
  /\ \E failed \in BOOLEAN :
       /\ ~failed => Len(ci) = 1
       /\ LET h == handle_launch_request_end(launch_req, failed)
          IN /\ out' = out \o h.msgs
             /\ debugger_state' = h.state
       /\ run_result' = IF failed THEN "error" ELSE "ok"
  /\ ci' = <<>>
  /\ callstack' = Pop(callstack)
  /\ UNCHANGED <<thread_event_sent, eof, exited, exit_code, nread, nevents,
                 launch_req, inlog, reqlog, nhooks>>

Next ==
  \/ ReadRequest
  \/ ReadUnexpected
  \/ ReadTooLong
  \/ ReadShortBody
  \/ ReadEOFAfterHeader
  \/ ReadEOF
  \/ HookLine
  \/ HookCall
  \/ HookReturn
  \/ ProgramEnds

Spec == Init /\ [][Next]_vars

TypeOK ==
  /\ debugger_state \in States
  /\ thread_event_sent \in {0, 1}
  /\ exited \in BOOLEAN /\ eof \in BOOLEAN
  /\ nread \in 0..MaxInput /\ nevents \in 0..MaxEvents
  /\ Len(ci) <= MaxDepth

(* ---- the inspection requests on their own ------------------------------ *)
\* The adapter sits at the head of a loop, in main before or after a run or in
\* the hook of a stopped program with some interpreter stack, and answers one
\* stackTrace, scopes or variables request.  The history variables start
\* empty here: they record what happens from that point on.

MaxStack == 21
MaxLocals == 5

QFrames == [nups : 0..1, nlocals : 0..MaxLocals]
\* the stacks a stopped program may have: deep ones of one frame, short mixed ones
QStacks ==
  {[i \in 1..n |-> f] : n \in 1..MaxStack, f \in QFrames}
    \cup {<<f, g>> : f \in QFrames, g \in QFrames}

\* the number of depths one scope kind has handles for
HandleSpan == UpvaluesBase - LocalsBase

QLevels == {0 - 1, 0, 1, 2, MAX_STACK_FRAMES - 1, MAX_STACK_FRAMES,
            MAX_STACK_FRAMES + 1}
QFrameIds == {0 - 1, 0, 1, 2, HandleSpan - 1, HandleSpan}
QVarRefs ==
  {scope_handle(kind, d) : kind \in {"l", "u", "g"}, d \in {0, 1, 2, HandleSpan - 1}}
    \cup {0 - 1, 0, LocalsBase - 1}

InitQ ==
  /\ \/ /\ debugger_state \in {DEBUGGER_BIRTH, DEBUGGER_INITIALIZED}
        /\ callstack = <<"main">> /\ ci = <<>>
        /\ thread_event_sent = 0 /\ run_result = "none"
     \/ /\ debugger_state = DEBUGGER_PROGRAM_TERMINATED
        /\ callstack = <<"main">> /\ ci = <<>>
        /\ thread_event_sent \in {0, 1} /\ run_result = "ok"
     \/ /\ debugger_state = DEBUGGER_PROGRAM_STOPPED
        /\ callstack = <<"main", "pcall", "hook">> /\ ci \in QStacks
        /\ thread_event_sent = 1 /\ run_result = "none"
  /\ out = <<>>
  /\ eof = FALSE
  /\ exited = FALSE
  /\ exit_code = 0
  /\ nread = 0
  /\ nevents = 0
  /\ launch_req = [seq |-> 0] @@ Request("", 0, 0, 0)
  /\ inlog = <<>>
  /\ reqlog = <<>>
  /\ nhooks = 0

QStackTrace ==
  /\ nread = 0
  /\ \E lv \in QLevels :
       Dispatch(Request("stackTrace", lv, 0, 0), BUFSIZE - 1, "LUA_OK",
                [nups |-> 0, nlocals |-> 0])

QScopes ==
  /\ nread = 0
  /\ \E fid \in QFrameIds :
       Dispatch(Request("scopes", 0, fid, 0), BUFSIZE - 1, "LUA_OK",
                [nups |-> 0, nlocals |-> 0])

QVariables ==
  /\ nread = 0
  /\ \E vr \in QVarRefs :
       Dispatch(Request("variables", 0, 0, vr), BUFSIZE - 1, "LUA_OK",
                [nups |-> 0, nlocals |-> 0])

NextQ ==
  \/ QStackTrace
  \/ QScopes
  \/ QVariables

SpecQ == InitQ /\ [][NextQ]_vars

(* ---- a client that steps at every stop ---------------------------------- *)
\* The client sends well-framed requests only and never disconnect; at every
\* stop it sends one stepIn, stepOut or next, sooner or later.  The program
\* raises finitely many events and then lua_pcall returns.

\* the client has already sent its step request for the present stop
Stepped ==
  \E k \in DOMAIN reqlog :
    /\ reqlog[k].ctx = "hook" /\ reqlog[k].hook = nhooks
    /\ reqlog[k].command \in StepCommands

\* what the client sends besides its step requests: the handshake, the
\* launch and one inspection request
LCommands == {"initialize", "launch", "stackTrace"}

\* A well-framed request other than a step or disconnect is read and dispatched.
LRequest ==
  /\ nread < MaxInput
  /\ \E body \in Requests, len \in FrameLens,
        status \in {"LUA_OK", "LUA_ERRFILE"}, chunk \in Frames :
       /\ body.command \in LCommands
       /\ (body.command # "launch" \/ debugger_state # DEBUGGER_INITIALIZED)
             => status = "LUA_OK"
       /\ (body.command # "launch" \/ debugger_state # DEBUGGER_INITIALIZED
             \/ status # "LUA_OK") => chunk = [nups |-> 0, nlocals |-> 0]
       /\ Dispatch(body, len, status, chunk)

\* The step request of the present stop is read by the loop inside the hook.
LStep ==
  /\ InLoop /\ Top = "hook" /\ ~Stepped
  /\ \E c \in StepCommands :
       Dispatch(Request(c, 0, 0, 0), BUFSIZE - 1, "LUA_OK",
                [nups |-> 0, nlocals |-> 0])

NextL ==
  \/ LRequest
  \/ LStep
  \/ HookLine
  \/ HookCall
  \/ HookReturn
  \/ ProgramEnds

SpecL ==
  /\ Init /\ [][NextL]_vars
  /\ WF_vars(LStep)
  /\ WF_vars(ProgramEnds)

(* ---- helpers of the properties ---------------------------------------- *)
IsResponse(m) == m.type = "response"
IsEvent(m, ev) == m.type = "event" /\ m.name = ev

\* positions in out of the responses to the request numbered seq
ResponsesTo(seq) == {i \in DOMAIN out : IsResponse(out[i]) /\ out[i].request_seq = seq}
\* the responses of out, in the order written
Responses == SelectSeq(out, IsResponse)
EventsAt(ev) == {i \in DOMAIN out : IsEvent(out[i], ev)}

\* the legality table of the session state machine
Admissible(st, cmd) ==
  \/ st = DEBUGGER_BIRTH /\ cmd = "initialize"
  \/ st = DEBUGGER_INITIALIZED
       /\ cmd \in {"launch", "setExceptionBreakpoints", "configurationDone", "disconnect"}
  \/ st = DEBUGGER_PROGRAM_STOPPED
       /\ cmd \in {"threads", "stackTrace", "scopes", "variables", "disconnect"}
                  \cup StepCommands
  \/ st = DEBUGGER_PROGRAM_TERMINATED /\ cmd = "disconnect"

(* ---- properties ------------------------------------------------------- *)

\* C1 (as stated): every request dispatched in a state whose legality table
\* does not list its command is answered with success = false and leaves the
\* session state as it was.
C1_StateLegality ==
  \A k \in DOMAIN reqlog :
    LET r == reqlog[k]
    IN ~Admissible(r.state, r.command) =>
         /\ ResponsesTo(r.seq) # {}
         /\ \A i \in ResponsesTo(r.seq) : ~out[i].success
         /\ r.after = r.state

\* C2 (as stated): once the program has ended the state stays
\* ProgramTerminated, whatever is read afterwards, and every later request
\* other than disconnect is answered with an error response.
C2_TerminatedAbsorbing ==
  /\ run_result # "none" => debugger_state = DEBUGGER_PROGRAM_TERMINATED
  /\ \A k \in DOMAIN reqlog :
       LET r == reqlog[k]
       IN (r.state = DEBUGGER_PROGRAM_TERMINATED /\ r.command # "disconnect") =>
            /\ ResponsesTo(r.seq) # {}
            /\ \A i \in ResponsesTo(r.seq) : ~out[i].success

\* the lifecycle stage of a session state; Running and Stopped share a stage
Stage(st) == IF st = DEBUGGER_PROGRAM_TERMINATED THEN 5
             ELSE IF st = DEBUGGER_PROGRAM_STOPPED THEN 4
             ELSE st

\* C3 (as stated): no step moves the session state to an earlier lifecycle
\* stage; within the Running/Stopped stage the state may oscillate.
C3_LifecycleMonotone ==
  [][Stage(debugger_state') >= Stage(debugger_state)]_vars

LaunchOK(r) ==
  r.command = "launch" /\ r.state = DEBUGGER_INITIALIZED /\ r.status = "LUA_OK"
LaunchFailed(r) ==
  r.command = "launch" /\ r.state = DEBUGGER_INITIALIZED /\ r.status # "LUA_OK"

\* C4: every dispatched request whose command is not disconnect has exactly
\* one response in the output, whatever the state and the loop it was read in.
C4_ResponseCorrespondence ==
  LET rs == Responses
  IN \A k \in DOMAIN reqlog :
       reqlog[k].command # "disconnect" =>
         Cardinality({i \in DOMAIN rs : rs[i].request_seq = reqlog[k].seq}) = 1

\* C4 witness: after a successful launch, an unknown command read by the loop
\* inside the hook has been dispatched.
C4_Witness ==
  /\ \E k \in DOMAIN reqlog : LaunchOK(reqlog[k])
  /\ \E k \in DOMAIN reqlog : reqlog[k].ctx = "hook" /\ reqlog[k].command = "evaluate"

\* C5: the responses appear in the output in the order in which their
\* requests were consumed, the loop inside the hook included.
C5_ResponseOrder ==
  LET rs == Responses
  IN /\ \A k \in DOMAIN reqlog : reqlog[k].seq = k
     /\ \A i \in DOMAIN rs : i > 1 => rs[i - 1].request_seq < rs[i].request_seq

\* C5 witness: the program has ended after a request was answered inside the
\* hook, so the launch handler has finished after a nested response.
C5_Witness ==
  /\ run_result # "none"
  /\ \E k1, k2 \in DOMAIN reqlog :
       /\ k1 < k2 /\ LaunchOK(reqlog[k1]) /\ reqlog[k2].ctx = "hook"
       /\ ResponsesTo(reqlog[k2].seq) # {}

\* C6: one thread event is emitted in a session, on the first line hook and
\* right before the first stopped event, whose reason is "entry"; every later
\* line hook emits one stopped event with reason "step"; the events of a stop
\* are in the output before any request of that stop is read.
C6_FirstStopContract ==
  LET stopped == EventsAt("stopped")
      thread == EventsAt("thread")
  IN /\ Cardinality(thread) = IF nhooks > 0 THEN 1 ELSE 0
     /\ Cardinality(stopped) = nhooks
     /\ \A i \in stopped :
          IF \A j \in stopped : i <= j
          THEN /\ out[i].message = "entry"
               /\ i > 1 /\ IsEvent(out[i - 1], "thread") /\ out[i - 1].message = "started"
          ELSE out[i].message = "step"
     /\ \A k \in DOMAIN reqlog :
          reqlog[k].ctx = "hook" =>
            Cardinality({i \in stopped \cup thread : i <= reqlog[k].outlen})
              = reqlog[k].hook + 1

\* C6 witness: the program has stopped a second time after a request was
\* read inside the first stop.
C6_Witness ==
  /\ nhooks >= 2
  /\ \E k \in DOMAIN reqlog : reqlog[k].ctx = "hook" /\ reqlog[k].hook = 1

\* C7 (as stated): the loop inside the hook is left, with the process alive,
\* only by a stepIn, stepOut or next request answered with success, and then
\* the state is ProgramRunning; threads, stackTrace, scopes and variables are
\* answered inside the loop and leave the state ProgramStopped.
C7_HookRelease ==
  [][(~exited /\ callstack # <<>> /\ Top = "hook") =>
       /\ (~exited' /\ callstack' # callstack) =>
            /\ Len(reqlog') = Len(reqlog) + 1
            /\ reqlog'[Len(reqlog')].command \in StepCommands
            /\ Len(out') = Len(out) + 1
            /\ IsResponse(out'[Len(out')]) /\ out'[Len(out')].success
            /\ debugger_state' = DEBUGGER_PROGRAM_RUNNING
       /\ (/\ Len(reqlog') = Len(reqlog) + 1
           /\ reqlog'[Len(reqlog')].command
                \in {"threads", "stackTrace", "scopes", "variables"}) =>
            /\ callstack' = callstack
            /\ debugger_state' = DEBUGGER_PROGRAM_STOPPED
            /\ Len(out') = Len(out) + 1 /\ IsResponse(out'[Len(out')])]_vars

\* C8: a launch in Initialized whose program loads emits the success response
\* as its first message, before any thread, stopped or terminated event, sets
\* the state to ProgramRunning and runs the program; when the run has returned
\* there is one terminated event, after every stopped event and right after the
\* two output events of a runtime error, and with it the state is
\* ProgramTerminated.
C8_LaunchSuccessLifecycle ==
  /\ \A k \in DOMAIN reqlog :
       LET r == reqlog[k]
       IN LaunchOK(r) =>
            /\ r.outlen_after = r.outlen + 1
            /\ out[r.outlen + 1] = send_success_response(r, "launch")
            /\ r.after = DEBUGGER_PROGRAM_RUNNING
            /\ r.stack_after = <<r.ctx, "pcall">>
            /\ \A i \in 1..r.outlen :
                 ~(IsEvent(out[i], "thread") \/ IsEvent(out[i], "stopped")
                   \/ IsEvent(out[i], "terminated"))
  /\ run_result = "none" => EventsAt("terminated") = {}
  /\ run_result # "none" =>
       \E t \in DOMAIN out :
         /\ EventsAt("terminated") = {t}
         /\ \A i \in EventsAt("stopped") : i < t
         /\ run_result = "error" =>
              /\ t > 2
              /\ out[t - 2] = send_output_event("Program terminated with error")
              /\ IsEvent(out[t - 1], "output")
         /\ (~exited /\ t = Len(out)) => debugger_state = DEBUGGER_PROGRAM_TERMINATED

\* C8 witness: a run that stopped at a line has returned with a runtime error
\* and the adapter is back in the outer loop.
C8_Witness ==
  /\ run_result = "error" /\ nhooks >= 1 /\ ~exited
  /\ debugger_state = DEBUGGER_PROGRAM_TERMINATED
  /\ IsEvent(out[Len(out)], "terminated")

\* C9: a launch in Initialized whose program fails to load emits exactly an
\* output event and then the error response "Launch failed", runs nothing,
\* emits no terminated event and leaves the state Initialized; a launch that
\* follows it is treated as a launch in Initialized.
C9_LaunchFailure ==
  \A k \in DOMAIN reqlog :
    LET r == reqlog[k]
    IN LaunchFailed(r) =>
         /\ r.outlen_after = r.outlen + 2
         /\ IsEvent(out[r.outlen + 1], "output")
         /\ out[r.outlen + 2] = send_error_response(r, "launch", "Launch failed")
         /\ r.after = DEBUGGER_INITIALIZED
         /\ r.stack_after = <<r.ctx>>
         /\ k < Len(reqlog) =>
              /\ reqlog[k + 1].state = DEBUGGER_INITIALIZED
              /\ reqlog[k + 1].outlen = r.outlen_after
              /\ reqlog[k + 1].hook = r.hook
              /\ LaunchOK(reqlog[k + 1]) =>
                   reqlog[k + 1].after = DEBUGGER_PROGRAM_RUNNING

\* C9 witness: a failed launch was followed by a launch that loaded.
C9_Witness ==
  \E k \in DOMAIN reqlog :
    k < Len(reqlog) /\ LaunchFailed(reqlog[k]) /\ LaunchOK(reqlog[k + 1])

\* C10: initialize in Birth emits the initialized event, the success response
\* with supportsConfigurationDoneRequest set and the output event "Debugger
\* initialized", in this order, and the state becomes Initialized; initialize
\* in a later state emits one error response and nothing else and leaves the
\* state as it was.
C10_InitializeHandshake ==
  \A k \in DOMAIN reqlog :
    LET r == reqlog[k]
    IN r.command = "initialize" =>
         IF r.state = DEBUGGER_BIRTH
         THEN /\ r.outlen_after = r.outlen + 3
              /\ out[r.outlen + 1] = Event("initialized", "")
              /\ IsResponse(out[r.outlen + 2])
              /\ out[r.outlen + 2].name = "initialize"
              /\ out[r.outlen + 2].success
              /\ out[r.outlen + 2].request_seq = r.seq
              /\ out[r.outlen + 2].body.supportsConfigurationDoneRequest = 1
              /\ out[r.outlen + 3] = send_output_event("Debugger initialized")
              /\ r.handled = DEBUGGER_INITIALIZED
         ELSE /\ r.outlen_after = r.outlen + 1
              /\ IsResponse(out[r.outlen + 1])
              /\ ~out[r.outlen + 1].success
              /\ out[r.outlen + 1].request_seq = r.seq
              /\ r.handled = r.state
              /\ r.after = r.state

\* C10 witness: initialize was accepted in Birth and rejected in a later
\* state reached by a launch.
C10_Witness ==
  /\ \E k \in DOMAIN reqlog :
       reqlog[k].command = "initialize" /\ reqlog[k].state = DEBUGGER_BIRTH
  /\ \E k \in DOMAIN reqlog :
       reqlog[k].command = "initialize" /\ reqlog[k].state > DEBUGGER_INITIALIZED

\* a step that reads the input, and what the read found
IsRead == Len(inlog') = Len(inlog) + 1
LastRead == inlog[Len(inlog)]

\* C11 (as stated): a read that finds end-of-stream ends the process, in
\* every session state and also inside the hook, and once end-of-stream was
\* found nothing more is written and the program is not resumed.
C11_EndOfStream ==
  [][/\ (IsRead /\ LastRead'.kind = "eof") => (exited' /\ out' = out)
     /\ (inlog # <<>> /\ LastRead.kind = "eof") =>
          (out' = out /\ callstack' = callstack)]_vars

\* C12: a disconnect request, in whatever state and loop it is read, writes
\* one success response and ends the process with code 0; that response is
\* the last message and the request the last input consumed.
C12_Disconnect ==
  \A k \in DOMAIN reqlog :
    LET r == reqlog[k]
    IN r.command = "disconnect" =>
         /\ exited /\ exit_code = 0
         /\ k = Len(reqlog) /\ r.inpos = Len(inlog)
         /\ r.outlen_after = r.outlen + 1
         /\ Len(out) = r.outlen_after
         /\ out[Len(out)] = send_success_response(r, "disconnect")

\* C12 witness: a disconnect was read inside the hook while the launch
\* handler was still active.
C12_Witness ==
  \E k \in DOMAIN reqlog :
    /\ reqlog[k].command = "disconnect" /\ reqlog[k].ctx = "hook"
    /\ reqlog[k].state = DEBUGGER_PROGRAM_STOPPED

\* the one message the handler wrote for the dispatched request r
ResponseOf(r) == out[r.outlen + 1]
Min(a, b) == IF a < b THEN a ELSE b
Max(a, b) == IF a > b THEN a ELSE b
\* the frame at depth exists in the stack the request r was answered on
FrameExists(r, depth) == lua_getstack(r.stack, depth)

\* C13 (as stated): a variables request whose variablesReference is the Up
\* Values or Globals handle that scopes gives for an existing frame is
\* answered with a success response whose variable list is empty.
C13_UpvaluesGlobalsEmpty ==
  \A k \in DOMAIN reqlog :
    LET r == reqlog[k]
        vr == r.body.variablesReference
    IN (/\ r.command = "variables"
        /\ \E d \in 0..(Len(r.stack) - 1) :
             \/ vr = scope_handle("g", d)
             \/ vr = scope_handle("u", d) /\ FrameAt(r.stack, d).nups > 0) =>
         /\ IsResponse(ResponseOf(r)) /\ ResponseOf(r).success
         /\ \A i \in DOMAIN ResponseOf(r).body.variables :
              ResponseOf(r).body.variables[i] = 0

\* C14 (as stated): a variables request on the Locals handle of an existing
\* frame with k locals is answered with the names of locals 1..min(k,
\* MAX_VARIABLES-1), one entry each, in index order, and no other entry; on
\* the Locals handle of an absent frame it is answered with an error response.
C14_LocalsEntries ==
  \A k \in DOMAIN reqlog :
    LET r == reqlog[k]
        h == decode_handle(r.body.variablesReference)
    IN (r.command = "variables" /\ h.type = "l") =>
         IF FrameExists(r, h.depth)
         THEN LET frame == FrameAt(r.stack, h.depth)
                  m == Min(frame.nlocals, MAX_VARIABLES - 1)
              IN /\ IsResponse(ResponseOf(r)) /\ ResponseOf(r).success
                 /\ \A x \in 0..(MAX_VARIABLES - 1) :
                      ResponseOf(r).body.variables[x] =
                        IF x < m THEN lua_getlocal(frame, x + 1) ELSE 0
         ELSE IsResponse(ResponseOf(r)) /\ ~ResponseOf(r).success

\* C15 (as stated): the number of frames a stackTrace response lists is at most
\* min(levels, MAX_STACK_FRAMES, stack depth), also for levels 0 and negative;
\* the frames have ids 0..k-1 in order and totalFrames is k.
C15_StackTraceCapAsStated ==
  \A k \in DOMAIN reqlog :
    LET r == reqlog[k]
        b == ResponseOf(r).body
    IN r.command = "stackTrace" =>
         /\ Len(b.stackFrames) <=
              Min(r.body.levels, Min(MAX_STACK_FRAMES, Len(r.stack)))
         /\ \A i \in DOMAIN b.stackFrames : b.stackFrames[i].id = i - 1
         /\ b.totalFrames = Len(b.stackFrames)

\* C15 (amended): a stackTrace response is a success response that lists
\* exactly min(max(levels, 0), MAX_STACK_FRAMES, stack depth) frames, so none
\* for levels 0 or negative; the frames have ids 0..k-1 in order and
\* totalFrames is k.
C15_StackTraceCap ==
  \A k \in DOMAIN reqlog :
    LET r == reqlog[k]
        b == ResponseOf(r).body
    IN r.command = "stackTrace" =>
         /\ IsResponse(ResponseOf(r)) /\ ResponseOf(r).success
         /\ Len(b.stackFrames) =
              Min(Max(r.body.levels, 0), Min(MAX_STACK_FRAMES, Len(r.stack)))
         /\ \A i \in DOMAIN b.stackFrames : b.stackFrames[i].id = i - 1
         /\ b.totalFrames = Len(b.stackFrames)

\* C15 witness: a stackTrace that asked for more than MAX_STACK_FRAMES levels
\* of a stack deeper than MAX_STACK_FRAMES was answered.
C15_Witness ==
  \E k \in DOMAIN reqlog :
    /\ reqlog[k].command = "stackTrace"
    /\ reqlog[k].body.levels > MAX_STACK_FRAMES
    /\ Len(reqlog[k].stack) > MAX_STACK_FRAMES
    /\ ResponseOf(reqlog[k]).body.totalFrames = MAX_STACK_FRAMES

\* C16: a scopes request for an existing frame is answered with Locals
\* (handle 1000000+frameId, not expensive), then Up Values iff the frame has
\* upvalues (2000000+frameId, not expensive), then Globals (3000000+frameId,
\* expensive), and nothing else; for an absent frame with an error response
\* without scopes.  The session state stays as it was.
C16_Scopes ==
  \A k \in DOMAIN reqlog :
    LET r == reqlog[k]
        fid == r.body.frameId
        m == ResponseOf(r)
        Refs(sc) == [i \in DOMAIN sc |-> <<sc[i].variablesReference, sc[i].expensive>>]
    IN r.command = "scopes" =>
         /\ r.outlen_after = r.outlen + 1
         /\ IsResponse(m) /\ m.request_seq = r.seq
         /\ r.handled = r.state /\ r.after = r.state
         /\ IF FrameExists(r, fid)
            THEN /\ m.success
                 /\ Refs(m.body.scopes) =
                      IF FrameAt(r.stack, fid).nups > 0
                      THEN <<<<LocalsBase + fid, 0>>, <<UpvaluesBase + fid, 0>>,
                             <<GlobalsBase + fid, 1>>>>
                      ELSE <<<<LocalsBase + fid, 0>>, <<GlobalsBase + fid, 1>>>>
                 /\ m.body.scopes[1].name = "Locals"
                 /\ m.body.scopes[Len(m.body.scopes)].name = "Globals"
            ELSE ~m.success /\ m.body = NoBody

\* C16 witness: scopes was answered for a frame below the top of the stack, one
\* time for a frame without upvalues under a frame with upvalues.
C16_Witness ==
  \E k \in DOMAIN reqlog :
    /\ reqlog[k].command = "scopes" /\ reqlog[k].body.frameId = 1
    /\ FrameExists(reqlog[k], 1)
    /\ FrameAt(reqlog[k].stack, 1).nups = 0
    /\ FrameAt(reqlog[k].stack, 0).nups > 0

Kinds == {"l", "u", "g"}

\* C17: for every scope kind and every depth d with 0 <= d < 1000000, the
\* handle scopes gives (kind, d) is not 0, is decoded by the variables handler
\* to (kind, d) from the handle alone, and differs from the handle of every
\* other (kind, depth); a variables request on the Locals handle of depth d
\* is therefore answered for the frame at depth d.
C17_HandleRoundTrip ==
  \A k \in DOMAIN reqlog :
    LET r == reqlog[k]
        Depths == {d \in QFrameIds : 0 <= d /\ d < HandleSpan}
    IN /\ (r.command = "scopes" /\ r.body.frameId \in Depths) =>
            \A kind \in Kinds :
              LET h == scope_handle(kind, r.body.frameId)
              IN /\ h # 0
                 /\ decode_handle(h) = [type |-> kind, depth |-> r.body.frameId]
                 /\ \A kind2 \in Kinds, d2 \in Depths :
                      scope_handle(kind2, d2) = h =>
                        (kind2 = kind /\ d2 = r.body.frameId)
                 /\ FrameExists(r, r.body.frameId) =>
                      (\E i \in DOMAIN ResponseOf(r).body.scopes :
                         ResponseOf(r).body.scopes[i].variablesReference = h)
                        <=> (kind = "u" => FrameAt(r.stack, r.body.frameId).nups > 0)
       /\ r.command = "variables" =>
            \A kind \in Kinds, d \in 0..(Len(r.stack) + 1) :
              r.body.variablesReference = scope_handle(kind, d) =>
                /\ decode_handle(r.body.variablesReference) =
                     [type |-> kind, depth |-> d]
                /\ ResponseOf(r).success <=> (kind = "l" /\ FrameExists(r, d))

\* C17 witness: a variables request on the Globals handle of depth 0, the least
\* handle of its kind, and one on the greatest Up Values handle were answered.
C17_Witness ==
  \E k \in DOMAIN reqlog :
    /\ reqlog[k].command = "variables"
    /\ reqlog[k].body.variablesReference \in
         {scope_handle("g", 0), scope_handle("u", HandleSpan - 1)}
    /\ reqlog[k].stack # <<>>

\* C18 (as stated): a frame that declares a Content-Length of the buffer size
\* or more, or that end-of-stream cuts short after the Content-Length line or
\* inside the body, is not dispatched, writes nothing, and ends the process
\* with a non-zero exit code.
C18_FramingErrorsFatal ==
  [][(/\ IsRead
      /\ \/ LastRead'.kind \in {"eof after header", "short body"}
         \/ LastRead'.kind = "too long" /\ LastRead'.len >= BUFSIZE) =>
       /\ exited' /\ exit_code' # 0
       /\ out' = out /\ reqlog' = reqlog]_vars

\* a read made after a launch started the program and before lua_pcall returned
InExecution(e) == e.run = "none" /\ \E k \in 1..e.nreq : LaunchOK(reqlog[k])

\* C19: the input is never read in ProgramRunning; every read made while the
\* program is in execution is made by the loop inside the hook, in
\* ProgramStopped.
C19_NoPollingWhileRunning ==
  /\ InLoop => debugger_state # DEBUGGER_PROGRAM_RUNNING
  /\ \A i \in DOMAIN inlog :
       LET e == inlog[i]
       IN /\ e.state # DEBUGGER_PROGRAM_RUNNING
          /\ InExecution(e) =>
               (e.ctx = "hook" /\ e.state = DEBUGGER_PROGRAM_STOPPED)

\* C19 witness: a request was dispatched while the program was in execution.
C19_Witness ==
  \E i \in DOMAIN inlog : inlog[i].kind = "request" /\ InExecution(inlog[i])

\* C20: at most one launch is answered with success and at most one
\* terminated event is written; a launch read while the program is stopped or
\* after it has ended gets an error response and starts nothing; the C stack
\* is never deeper than main's loop, the launch handler and the hook's loop.
C20_SingleExecution ==
  LET rs == Responses
  IN /\ Cardinality({i \in DOMAIN rs : rs[i].name = "launch" /\ rs[i].success}) <= 1
     /\ Cardinality(EventsAt("terminated")) <= 1
     /\ \A k \in DOMAIN reqlog :
          LET r == reqlog[k]
          IN (/\ r.command = "launch"
              /\ r.state \in {DEBUGGER_PROGRAM_STOPPED, DEBUGGER_PROGRAM_TERMINATED}) =>
               /\ r.outlen_after = r.outlen + 1
               /\ IsResponse(out[r.outlen + 1]) /\ ~out[r.outlen + 1].success
               /\ out[r.outlen + 1].request_seq = r.seq
               /\ r.stack_after = r.callstack
               /\ r.after = r.state
     /\ callstack \in {<<>>, <<"main">>, <<"main", "pcall">>, <<"main", "pcall", "hook">>}

\* C20 witness: a launch was read inside the hook of a running program.
C20_Witness ==
  \E k \in DOMAIN reqlog :
    /\ reqlog[k].command = "launch" /\ reqlog[k].ctx = "hook"
    /\ reqlog[k].state = DEBUGGER_PROGRAM_STOPPED

\* lua_pcall has been entered by the launch handler and has not returned
InRun == ~exited /\ Len(callstack) >= 2 /\ callstack[2] = "pcall"

\* the stopped events written so far
StoppedEvents == Cardinality(EventsAt("stopped"))

\* C21: with a client that steps at every stop and never sends disconnect or
\* a malformed frame, a launched program that raises finitely many line
\* events reaches its end: the terminated event is written last, the state
\* becomes ProgramTerminated and control is back in main's loop; all along,
\* the stopped events written are as many as the line events raised.
C21_ProgressToTermination ==
  /\ [](StoppedEvents = nhooks)
  /\ InRun ~> (/\ debugger_state = DEBUGGER_PROGRAM_TERMINATED
               /\ callstack = <<"main">>
               /\ run_result # "none"
               /\ out # <<>> /\ out[Len(out)] = send_terminated_event
               /\ StoppedEvents = nhooks)

\* C21 witness: a program that raised two line events, each answered by a
\* step request, has ended normally.
C21_Witness ==
  /\ debugger_state = DEBUGGER_PROGRAM_TERMINATED
  /\ run_result = "ok"
  /\ nhooks >= 2 /\ StoppedEvents = nhooks
  /\ Cardinality({k \in DOMAIN reqlog :
                    reqlog[k].ctx = "hook" /\ reqlog[k].command \in StepCommands}) = nhooks
  /\ EventsAt("terminated") # {}

====
